---- MODULE Spec2Model ----
(***************************************************************************)
(* Model of scripts/generate_keenetic_dns_routes.py.                       *)
(*                                                                         *)
(* Python strings are sequences of one-character strings, so that strip,   *)
(* lower, endswith, split and join are computed rather than assumed.       *)
(* File-system paths of the two output files are opaque identifiers: the   *)
(* program only tests the unsupported-file option for emptiness.           *)
(***************************************************************************)
EXTENDS Integers, Sequences, FiniteSets, TLC

\* ------------------------------------------------------------------ bounds
MaxLen == 3
MaxTlds == 2
MaxLines == 2

\* ------------------------------------------------------- string primitives
UpperAlpha == <<"A","B","C","D","E","F","G","H","I","J","K","L","M",
                "N","O","P","Q","R","S","T","U","V","W","X","Y","Z">>
LowerAlpha == <<"a","b","c","d","e","f","g","h","i","j","k","l","m",
                "n","o","p","q","r","s","t","u","v","w","x","y","z">>

IsSpace(c) == c \in {" ", "\t"}

LowerChar(c) ==
    IF \E i \in 1..Len(UpperAlpha) : UpperAlpha[i] = c
    THEN LowerAlpha[CHOOSE i \in 1..Len(UpperAlpha) : UpperAlpha[i] = c]
    ELSE c

\* str.lower()
lower(s) == [i \in 1..Len(s) |-> LowerChar(s[i])]

RECURSIVE lstrip(_)
lstrip(s) == IF s # <<>> /\ IsSpace(Head(s)) THEN lstrip(Tail(s)) ELSE s

RECURSIVE rstrip(_)
rstrip(s) ==
    IF s # <<>> /\ IsSpace(s[Len(s)]) THEN rstrip(SubSeq(s, 1, Len(s) - 1)) ELSE s

\* str.strip()
strip(s) == rstrip(lstrip(s))

\* str.startswith(p) / str.endswith(p)
startswith(s, p) == Len(s) >= Len(p) /\ SubSeq(s, 1, Len(p)) = p
endswith(s, p) == Len(s) >= Len(p) /\ SubSeq(s, Len(s) - Len(p) + 1, Len(s)) = p

\* c in s
Contains(s, c) == \E i \in 1..Len(s) : s[i] = c

\* index of the first occurrence of c in s (s contains c)
FirstIndex(s, c) == CHOOSE i \in 1..Len(s) : s[i] = c /\ \A j \in 1..(i - 1) : s[j] # c

\* index of the last occurrence of c in s (s contains c)
LastIndex(s, c) == CHOOSE i \in 1..Len(s) : s[i] = c /\ \A j \in (i + 1)..Len(s) : s[j] # c

\* s.split(c, 1) for s containing c: the two parts around the first c
split1(s, c) ==
    LET i == FirstIndex(s, c)
    IN  <<SubSeq(s, 1, i - 1), SubSeq(s, i + 1, Len(s))>>

\* s.split(c): all the parts between occurrences of c
RECURSIVE split(_, _)
split(s, c) ==
    IF Contains(s, c)
    THEN <<split1(s, c)[1]>> \o split(split1(s, c)[2], c)
    ELSE <<s>>

\* c.join(items)
RECURSIVE join(_, _)
join(c, items) ==
    IF items = <<>> THEN <<>>
    ELSE IF Len(items) = 1 THEN items[1]
    ELSE items[1] \o <<c>> \o join(c, Tail(items))

\* ------------------------------------------------------- program constants
P_DOMAIN == <<"D","O","M","A","I","N">>
P_DOMAIN_SUFFIX == <<"D","O","M","A","I","N","-","S","U","F","F","I","X">>
P_DOMAIN_KEYWORD == <<"D","O","M","A","I","N","-","K","E","Y","W","O","R","D">>

SUPPORTED_PREFIXES == {P_DOMAIN, P_DOMAIN_SUFFIX, P_DOMAIN_KEYWORD}

\* the value parse_line returns for a skipped line
None == [kind |-> "None", value |-> <<>>]

\* --------------------------------------------------------- pure functions
parse_line_lastcomma(raw_line) ==
    LET line == strip(raw_line)
    IN  IF line = <<>> \/ startswith(line, <<"#">>) \/ startswith(line, <<"/", "/">>)
        THEN None
        ELSE IF Contains(line, ",")
        THEN LET i == LastIndex(line, ",")
                 prefix == strip(SubSeq(line, 1, i - 1))
                 value == strip(SubSeq(line, i + 1, Len(line)))
             IN  IF prefix = P_DOMAIN \/ prefix = P_DOMAIN_SUFFIX
                 THEN [kind |-> "domain", value |-> value]
                 ELSE IF prefix = P_DOMAIN_KEYWORD
                 THEN [kind |-> "keyword", value |-> value]
                 ELSE IF prefix \in SUPPORTED_PREFIXES
                 THEN [kind |-> "unknown", value |-> line]
                 ELSE [kind |-> "raw", value |-> line]
        ELSE [kind |-> "domain", value |-> line]

parse_line(raw_line) ==
    LET line == strip(raw_line)
    IN  IF line = <<>> \/ startswith(line, <<"#">>) \/ startswith(line, <<"/", "/">>)
        THEN None
        ELSE IF Contains(line, ",")
        THEN LET parts == split1(line, ",")
                 prefix == strip(parts[1])
                 value == strip(parts[2])
             IN  IF prefix = P_DOMAIN \/ prefix = P_DOMAIN_SUFFIX
                 THEN [kind |-> "domain", value |-> value]
                 ELSE IF prefix = P_DOMAIN_KEYWORD
                 THEN [kind |-> "keyword", value |-> value]
                 ELSE IF prefix \in SUPPORTED_PREFIXES
                 THEN [kind |-> "unknown", value |-> line]
                 ELSE [kind |-> "raw", value |-> line]
        ELSE [kind |-> "domain", value |-> line]

normalize_dotfirst(value) ==
    LET v == IF endswith(value, <<".">>) THEN SubSeq(value, 1, Len(value) - 1) ELSE value
    IN  lower(strip(v))

normalize(value) ==
    LET v == lower(strip(value))
    IN  IF endswith(v, <<".">>) THEN SubSeq(v, 1, Len(v) - 1) ELSE v

expand_keyword_raw(keyword, tlds) ==
    LET normalized == normalize(keyword)
    IN  IF normalized = <<>> THEN <<>>
        ELSE IF Contains(normalized, ".") THEN <<normalized>>
        ELSE [i \in 1..Len(tlds) |-> strip(keyword) \o <<".">> \o tlds[i]]

expand_keyword_always(keyword, tlds) ==
    LET normalized == normalize(keyword)
    IN  IF normalized = <<>> THEN <<>>
        ELSE [i \in 1..Len(tlds) |-> normalized \o <<".">> \o tlds[i]]

expand_keyword(keyword, tlds) ==
    LET normalized == normalize(keyword)
    IN  IF normalized = <<>> THEN <<>>
        ELSE IF Contains(normalized, ".") THEN <<normalized>>
        ELSE [i \in 1..Len(tlds) |-> normalized \o <<".">> \o tlds[i]]

\* [t.strip().lower() for t in arg.split(",") if t.strip()]
parse_tlds(arg) ==
    LET parts == split(arg, ",")
        kept == SelectSeq(parts, LAMBDA t : strip(t) # <<>>)
    IN  [i \in 1..Len(kept) |-> lower(strip(kept[i]))]

\* the text write_list puts in the file
FileContent(items) ==
    LET content == join("\n", items)
    IN  IF content # <<>> THEN content \o <<"\n">> ELSE content

\* Path(args.unsupported_file) if args.unsupported_file else None
NoPath == "None"
UnsupportedPath_always(unsupported_file) ==
    IF unsupported_file # "" THEN unsupported_file ELSE "unsup.txt"

UnsupportedPath(unsupported_file) ==
    IF unsupported_file # "" THEN unsupported_file ELSE NoPath

\* write_list(path, items) on the file system f
write_list(f, path, items) ==
    IF path = NoPath THEN f
    ELSE [f EXCEPT ![path] = [exists |-> TRUE, content |-> FileContent(items)]]

\* ------------------------------------------------ file names and sorting
Ascii == <<"\t", "\n", " ", "#", ",", "-", ".", "/">> \o UpperAlpha \o LowerAlpha
Ord(c) == CHOOSE i \in 1..Len(Ascii) : Ascii[i] = c

RECURSIVE LexLess(_, _)
LexLess(s, t) ==
    IF t = <<>> THEN FALSE
    ELSE IF s = <<>> THEN TRUE
    ELSE IF Head(s) # Head(t) THEN Ord(Head(s)) < Ord(Head(t))
    ELSE LexLess(Tail(s), Tail(t))

RECURSIVE sorted_reverse(_)
sorted_reverse(S) ==
    IF S = {} THEN <<>>
    ELSE LET m == CHOOSE x \in S : \A y \in S : x = y \/ LexLess(y, x)
         IN  <<m>> \o sorted_reverse(S \ {m})

\* sorted(paths)
RECURSIVE sorted(_)
sorted(S) ==
    IF S = {} THEN <<>>
    ELSE LET m == CHOOSE x \in S : \A y \in S : x = y \/ LexLess(x, y)
         IN  <<m>> \o sorted(S \ {m})

glob_all(names) == names

\* input_dir.glob("*.list")
glob_list(names) == {n \in names : endswith(n, <<".", "l", "i", "s", "t">>)}

\* -------------------------------------------------------------- aggregator
\* acc is [domains, seen, unsupported, unsupported_seen]
HandleDomain_nodedup(acc, value) ==
    LET normalized == normalize(value)
    IN  IF normalized # <<>>
        THEN [acc EXCEPT !.seen = @ \cup {normalized},
                         !.domains = Append(@, normalized)]
        ELSE acc

HandleDomain_prepend(acc, value) ==
    LET normalized == normalize(value)
    IN  IF normalized # <<>> /\ normalized \notin acc.seen
        THEN [acc EXCEPT !.seen = @ \cup {normalized},
                         !.domains = <<normalized>> \o @]
        ELSE acc

\* lines 145-149
HandleDomain(acc, value) ==
    LET normalized == normalize(value)
    IN  IF normalized # <<>> /\ normalized \notin acc.seen
        THEN [acc EXCEPT !.seen = @ \cup {normalized},
                         !.domains = Append(@, normalized)]
        ELSE acc

RECURSIVE AddKeywordDomains_ownset(_, _, _)
AddKeywordDomains_ownset(acc, ds, own) ==
    IF ds = <<>> THEN acc
    ELSE IF Head(ds) # <<>> /\ Head(ds) \notin own
    THEN AddKeywordDomains_ownset(
             [acc EXCEPT !.seen = @ \cup {Head(ds)},
                         !.domains = Append(@, Head(ds))], Tail(ds), own \cup {Head(ds)})
    ELSE AddKeywordDomains_ownset(acc, Tail(ds), own)

\* the loop body of lines 151-154 over the expansion ds
RECURSIVE AddKeywordDomains(_, _)
AddKeywordDomains(acc, ds) ==
    IF ds = <<>> THEN acc
    ELSE IF Head(ds) # <<>> /\ Head(ds) \notin acc.seen
    THEN AddKeywordDomains(
             [acc EXCEPT !.seen = @ \cup {Head(ds)},
                         !.domains = Append(@, Head(ds))], Tail(ds))
    ELSE AddKeywordDomains(acc, Tail(ds))

HandleKeyword_ownset(acc, value, tlds) ==
    AddKeywordDomains_ownset(acc, expand_keyword(value, tlds), {})

\* lines 150-154
HandleKeyword(acc, value, tlds) == AddKeywordDomains(acc, expand_keyword(value, tlds))

\* lines 155-159
HandleUnsupported(acc, value) ==
    LET normalized == normalize(value)
    IN  IF normalized # <<>> /\ normalized \notin acc.unsupported_seen
        THEN [acc EXCEPT !.unsupported_seen = @ \cup {normalized},
                         !.unsupported = Append(@, normalized)]
        ELSE acc

\* lines 141-159: the body of the inner loop for one raw line
ProcessParsed(acc, raw, tlds) ==
    LET parsed == parse_line(raw)
    IN  IF parsed = None THEN acc
        ELSE IF parsed.kind = "domain" THEN HandleDomain(acc, parsed.value)
        ELSE IF parsed.kind = "keyword" THEN HandleKeyword(acc, parsed.value, tlds)
        ELSE IF parsed.kind \in {"unknown", "raw"} THEN HandleUnsupported(acc, parsed.value)
        ELSE acc

\* ------------------------------------------------------------------ inputs
N_ab_list == <<"a", "b", ".", "l", "i", "s", "t">>
N_b_list == <<"b", ".", "l", "i", "s", "t">>
N_a_txt == <<"a", ".", "t", "x", "t">>
FileNames == {N_ab_list, N_b_list, N_a_txt}

\* raw lines a *.list file may hold
Lines ==
    { <<" ", "A", ".", "B", ".">>,
      P_DOMAIN_SUFFIX \o <<",", "a", ".", "b", ".", ".">>,
      P_DOMAIN \o <<",", ".">>,
      P_DOMAIN_KEYWORD \o <<",", "a">>,
      <<" ", "X", ",", "y">>,
      <<"Y", ",", "x">>,
      <<"#", "a">> }

\* values of --keyword-tlds
TldArgs == { <<"b">>, <<" ", "C", ",", " ", ",", "b">> }

\* values of --output-file and --unsupported-file
OutputPaths == {"out.txt", "unsup.txt"}
OutputFileArgs == {"out.txt"}
UnsupportedFileArgs == {"", "out.txt", "unsup.txt"}

Absent == [exists |-> FALSE, content |-> <<>>]
OldFile == [exists |-> TRUE, content |-> <<"o", "l", "d", "\n">>]

\* ------------------------------------------------------------------- state
VARIABLES
    input,            \* the input directory: [exists, names]
    args,             \* parsed command line: [output_file, unsupported_file, strict, keyword_tlds]
    fs, fs0,          \* the output paths' files now, and as they were before the run
    pc,               \* position in main
    list_files,       \* sorted *.list paths
    keyword_tlds,
    file_idx,         \* index in list_files of the file being read (0 before the first)
    nlines, line_idx, \* number of lines of that file, and how many have been processed
    domains, seen, unsupported, unsupported_seen,
    writes,           \* log of the write_text calls: <<path, items>>
    exit_code,        \* -1 while main runs
    firstAt, firstAtU,\* history: where each domain / unsupported entry was first produced
    producedBy,       \* history: which kinds of line produced each domain
    fop, fin, ftlds, fout   \* harness applying one pure function to one input

mainVars == <<input, args, fs, fs0, pc, list_files, keyword_tlds, file_idx, nlines, line_idx,
              domains, seen, unsupported, unsupported_seen, writes, exit_code,
              firstAt, firstAtU, producedBy>>
fnVars == <<fop, fin, ftlds, fout>>
vars == <<mainVars, fnVars>>

EmptyFn == [x \in {} |-> 0]

FnIdle == fop = "idle" /\ fin = <<>> /\ ftlds = <<>> /\ fout = <<>>

MainIdle ==
    /\ input = [exists |-> FALSE, names |-> {}]
    /\ args = [output_file |-> "out.txt", unsupported_file |-> "", strict |-> FALSE,
               keyword_tlds |-> <<>>]
    /\ fs = [p \in OutputPaths |-> Absent] /\ fs0 = fs
    /\ pc = "idle"
    /\ list_files = <<>> /\ keyword_tlds = <<>>
    /\ file_idx = 0 /\ nlines = 0 /\ line_idx = 0 
    /\ domains = <<>> /\ seen = {} /\ unsupported = <<>> /\ unsupported_seen = {}
    /\ writes = <<>> /\ exit_code = -1
    /\ firstAt = EmptyFn /\ firstAtU = EmptyFn /\ producedBy = EmptyFn

\* the state when main is entered, after parser.parse_args()
Init ==
    /\ input \in {[exists |-> FALSE, names |-> {}]}
                 \cup {[exists |-> TRUE, names |-> ns] : ns \in SUBSET FileNames}
    /\ args \in [output_file : OutputFileArgs, unsupported_file : UnsupportedFileArgs,
                 strict : BOOLEAN, keyword_tlds : TldArgs]
    /\ fs = [p \in OutputPaths |-> IF p = "out.txt" THEN OldFile ELSE Absent]
    /\ fs0 = fs
    /\ pc = "check_dir"
    /\ list_files = <<>> /\ keyword_tlds = <<>>
    /\ file_idx = 0 /\ nlines = 0 /\ line_idx = 0 
    /\ domains = <<>> /\ seen = {} /\ unsupported = <<>> /\ unsupported_seen = {}
    /\ writes = <<>> /\ exit_code = -1
    /\ firstAt = EmptyFn /\ firstAtU = EmptyFn /\ producedBy = EmptyFn
    /\ FnIdle

\* --------------------------------------------------------------- history
\* what one raw line contributes to domains, in order, and through which kind of rule
Produced(raw, tlds) ==
    LET parsed == parse_line(raw)
    IN  IF parsed.kind = "domain" THEN <<normalize(parsed.value)>>
        ELSE IF parsed.kind = "keyword" THEN expand_keyword(parsed.value, tlds)
        ELSE <<>>

ProducedU(raw) ==
    LET parsed == parse_line(raw)
    IN  IF parsed.kind \in {"unknown", "raw"} THEN <<normalize(parsed.value)>> ELSE <<>>

ProducerKind(raw) == IF parse_line(raw).kind = "keyword" THEN "keyword" ELSE "literal"

NonEmptyElems(q) == {q[k] : k \in 1..Len(q)} \ {<<>>}

\* record for every string of q not recorded yet the place <<file, line, k>> of its first
\* occurrence
RecordFirst(fa, q, file, line) ==
    [s \in (DOMAIN fa) \cup NonEmptyElems(q) |->
        IF s \in DOMAIN fa THEN fa[s]
        ELSE <<file, line, CHOOSE k \in 1..Len(q) : q[k] = s /\ \A j \in 1..(k - 1) : q[j] # s>>]

RecordKind(pb, q, kind) ==
    [s \in (DOMAIN pb) \cup NonEmptyElems(q) |->
        (IF s \in DOMAIN pb THEN pb[s] ELSE {}) \cup (IF s \in NonEmptyElems(q) THEN {kind} ELSE {})]

\* ----------------------------------------------------------------- actions
\* lines 123-126, directory missing
InputDirMissing ==
    /\ pc = "check_dir" /\ ~input.exists
    /\ exit_code' = 2 /\ pc' = "done"
    /\ UNCHANGED <<input, args, fs, fs0, list_files, keyword_tlds, file_idx, nlines, line_idx,
                   domains, seen, unsupported, unsupported_seen, writes,
                   firstAt, firstAtU, producedBy, fnVars>>

\* lines 123-124, directory present
InputDirFound ==
    /\ pc = "check_dir" /\ input.exists
    /\ pc' = "glob"
    /\ UNCHANGED <<input, args, fs, fs0, list_files, keyword_tlds, file_idx, nlines, line_idx,
                   domains, seen, unsupported, unsupported_seen, writes, exit_code,
                   firstAt, firstAtU, producedBy, fnVars>>

\* lines 128-131, no *.list file
NoListFiles ==
    /\ pc = "glob"
    /\ sorted(glob_list(input.names)) = <<>>
    /\ list_files' = <<>>
    /\ exit_code' = 2 /\ pc' = "done"
    /\ UNCHANGED <<input, args, fs, fs0, keyword_tlds, file_idx, nlines, line_idx,
                   domains, seen, unsupported, unsupported_seen, writes,
                   firstAt, firstAtU, producedBy, fnVars>>

\* lines 128-137, some *.list file: the accumulators are created
ListFiles ==
    /\ pc = "glob"
    /\ sorted(glob_list(input.names)) # <<>>
    /\ list_files' = sorted(glob_list(input.names))
    /\ domains' = <<>> /\ seen' = {} /\ unsupported' = <<>> /\ unsupported_seen' = {}
    /\ keyword_tlds' = parse_tlds(args.keyword_tlds)
    /\ pc' = "loop"
    /\ UNCHANGED <<input, args, fs, fs0, file_idx, nlines, line_idx, writes,
                   exit_code, firstAt, firstAtU, producedBy, fnVars>>

\* lines 139-140: the next file is read and split into lines
ReadFile ==
    /\ pc = "loop" /\ line_idx = nlines /\ file_idx < Len(list_files)
    /\ file_idx' = file_idx + 1
    /\ \E n \in 0..MaxLines : nlines' = n
    /\ line_idx' = 0
    /\ UNCHANGED <<input, args, fs, fs0, pc, list_files, keyword_tlds,
                   domains, seen, unsupported, unsupported_seen, writes, exit_code,
                   firstAt, firstAtU, producedBy, fnVars>>

\* lines 140-159: one line of the current file goes through the loop body
ProcessLine ==
    /\ pc = "loop" /\ line_idx < nlines
    /\ \E raw \in Lines :
         LET acc == [domains |-> domains, seen |-> seen, unsupported |-> unsupported,
                     unsupported_seen |-> unsupported_seen]
             new == ProcessParsed(acc, raw, keyword_tlds)
             file == list_files[file_idx]
         IN  /\ domains' = new.domains /\ seen' = new.seen
             /\ unsupported' = new.unsupported /\ unsupported_seen' = new.unsupported_seen
             /\ firstAt' = RecordFirst(firstAt, Produced(raw, keyword_tlds), file, line_idx + 1)
             /\ firstAtU' = RecordFirst(firstAtU, ProducedU(raw), file, line_idx + 1)
             /\ producedBy' = RecordKind(producedBy, Produced(raw, keyword_tlds),
                                         ProducerKind(raw))
    /\ line_idx' = line_idx + 1
    /\ UNCHANGED <<input, args, fs, fs0, pc, list_files, keyword_tlds, file_idx, nlines,
                   writes, exit_code, fnVars>>

\* line 161
WriteDomains ==
    /\ pc = "loop" /\ line_idx = nlines /\ file_idx = Len(list_files)
    /\ fs' = write_list(fs, args.output_file, domains)
    /\ writes' = Append(writes, <<args.output_file, domains>>)
    /\ pc' = "write_unsupported"
    /\ UNCHANGED <<input, args, fs0, list_files, keyword_tlds, file_idx, nlines, line_idx,
                   domains, seen, unsupported, unsupported_seen, exit_code,
                   firstAt, firstAtU, producedBy, fnVars>>

\* lines 162-163
WriteUnsupported ==
    /\ pc = "write_unsupported"
    /\ LET unsupported_path == UnsupportedPath(args.unsupported_file)
       IN  /\ fs' = write_list(fs, unsupported_path, unsupported)
           /\ writes' = IF unsupported_path = NoPath THEN writes
                        ELSE Append(writes, <<unsupported_path, unsupported>>)
    /\ pc' = "check_strict"
    /\ UNCHANGED <<input, args, fs0, list_files, keyword_tlds, file_idx, nlines, line_idx,
                   domains, seen, unsupported, unsupported_seen, exit_code,
                   firstAt, firstAtU, producedBy, fnVars>>

ExitStatus_nostrict(u, strict) == IF u # <<>> THEN 1 ELSE 0

\* lines 165-172: the value main returns
ExitStatus(u, strict) == IF u # <<>> /\ strict THEN 1 ELSE 0

Finish ==
    /\ pc = "check_strict"
    /\ exit_code' = ExitStatus(unsupported, args.strict)
    /\ pc' = "done"
    /\ UNCHANGED <<input, args, fs, fs0, list_files, keyword_tlds, file_idx, nlines, line_idx,
                   domains, seen, unsupported, unsupported_seen, writes,
                   firstAt, firstAtU, producedBy, fnVars>>

Next ==
    \/ InputDirMissing
    \/ InputDirFound
    \/ NoListFiles
    \/ ListFiles
    \/ ReadFile
    \/ ProcessLine
    \/ WriteDomains
    \/ WriteUnsupported
    \/ Finish

Spec == Init /\ [][Next]_vars

\* ------------------------------------------------ pure-function harness
RECURSIVE StringsUpTo(_, _)
StringsUpTo(A, n) ==
    IF n = 0 THEN {<<>>}
    ELSE LET shorter == StringsUpTo(A, n - 1)
         IN  shorter \cup {Append(s, c) : s \in shorter, c \in A}

FnAlphabet == {"a", "B", ".", ",", " "}
FnLeads == {<<>>, <<" ">>}
FnPrefixes ==
    { <<>>, P_DOMAIN, P_DOMAIN_SUFFIX, P_DOMAIN_KEYWORD, lower(P_DOMAIN),
      <<"D", "O", "M", "A", "I", "N", "-", "S", "E", "T">>, <<"#">>, <<"/">>, <<"/", "/">> }

\* argument strings: optional blank, a prefix, and a tail of at most MaxLen characters
FnInputs == {l \o p \o t : l \in FnLeads, p \in FnPrefixes, t \in StringsUpTo(FnAlphabet, MaxLen)}

FnTlds == {<<"b">>, <<"c", ".">>, <<>>}
FnTldLists == StringsUpTo(FnTlds, MaxTlds)

InitFn ==
    /\ MainIdle
    /\ fop = "idle" /\ fin \in FnInputs /\ ftlds = <<>> /\ fout = <<>>

FnParseLine ==
    /\ fop = "idle"
    /\ fop' = "parse_line" /\ fout' = parse_line(fin)
    /\ UNCHANGED <<mainVars, fin, ftlds>>

FnNormalize ==
    /\ fop = "idle"
    /\ fop' = "normalize" /\ fout' = normalize(fin)
    /\ UNCHANGED <<mainVars, fin, ftlds>>

FnExpandKeyword ==
    /\ fop = "idle"
    /\ \E tlds \in FnTldLists : ftlds' = tlds /\ fout' = expand_keyword(fin, tlds)
    /\ fop' = "expand_keyword"
    /\ UNCHANGED <<mainVars, fin>>

NextFn == FnParseLine \/ FnNormalize \/ FnExpandKeyword

SpecFn == InitFn /\ [][NextFn]_vars

\* ================================================================== claims
Entries(q) == {q[i] : i \in 1..Len(q)}
Count(q, s) == Cardinality({i \in 1..Len(q) : q[i] = s})
IndexOf(q, s) == CHOOSE i \in 1..Len(q) : q[i] = s
IsPrefix(q, r) == Len(q) <= Len(r) /\ SubSeq(r, 1, Len(q)) = q
Written(items) == [exists |-> TRUE, content |-> FileContent(items)]

\* a place <<file name, line number, index in the expansion>> comes before another one, files
\* compared by name
PosLess(a, b) ==
    \/ LexLess(a[1], b[1])
    \/ a[1] = b[1] /\ a[2] < b[2]
    \/ a[1] = b[1] /\ a[2] = b[2] /\ a[3] < b[3]

\* C1 (as stated): domains holds no empty string and no two entries that are equal after
\* normalize is applied to each of them.
C1_Original ==
    /\ \A i \in 1..Len(domains) : domains[i] # <<>>
    /\ \A i, j \in 1..Len(domains) : i # j => normalize(domains[i]) # normalize(domains[j])

\* C1 (amended): domains holds no empty string and no two equal entries; entries that differ
\* only by a further trailing '.' are kept apart.
C1_Amended ==
    /\ \A i \in 1..Len(domains) : domains[i] # <<>>
    /\ \A i, j \in 1..Len(domains) : i # j => domains[i] # domains[j]

\* three entries are in domains, one of them produced by a literal line and by a keyword line
C1_Witness ==
    /\ pc = "done" /\ Len(domains) = 3
    /\ \E s \in DOMAIN producedBy : producedBy[s] = {"literal", "keyword"}

\* C2: a string produced both by a literal line and by a keyword expansion is in domains
\* exactly once, at the rank of its first production among all first productions.
C2_SharedNamespace ==
    \A s \in DOMAIN producedBy :
        producedBy[s] = {"literal", "keyword"} =>
            /\ Count(domains, s) = 1
            /\ IndexOf(domains, s) =
                   1 + Cardinality({t \in DOMAIN firstAt : PosLess(firstAt[t], firstAt[s])})

\* a string first produced as the second element of a keyword expansion, then by a literal line
C2_Witness ==
    \E s \in DOMAIN producedBy :
        /\ producedBy[s] = {"literal", "keyword"}
        /\ firstAt[s][3] = 2
        /\ Len(domains) >= 2

\* C3 (as stated): normalize(normalize(D)) = normalize(D) for every string D.
C3_Original == fop = "normalize" => normalize(fout) = fout

\* the trimmed string does not end in '.' preceded by another '.' or by whitespace
SingleRootDot(D) ==
    LET t == strip(D)
    IN  ~(Len(t) >= 2 /\ t[Len(t)] = "." /\ (t[Len(t) - 1] = "." \/ IsSpace(t[Len(t) - 1])))

\* C3 (amended): normalize(normalize(D)) = normalize(D) for every string D that, once trimmed,
\* does not end in '.' preceded by another '.' or by whitespace.
C3_Amended == fop = "normalize" /\ SingleRootDot(fin) => normalize(fout) = fout

\* normalize applied to " Ba." (blank, mixed case, one trailing dot)
C3_Witness ==
    fop = "normalize" /\ fin = <<" ", "B", "a", ".">> /\ fout = <<"b", "a">>

\* C4 (as stated): for K without '.', expand_keyword(K, TLDs) has one element per TLD, the
\* i-th being normalize(K) + "." + TLDs[i].
C4_Original ==
    fop = "expand_keyword" /\ ~Contains(fin, ".") =>
        /\ Len(fout) = Len(ftlds)
        /\ \A i \in 1..Len(ftlds) : fout[i] = normalize(fin) \o <<".">> \o ftlds[i]

\* C4 (amended): the same for K without '.' that is not blank (a blank K expands to nothing).
C4_Amended ==
    fop = "expand_keyword" /\ ~Contains(fin, ".") /\ strip(fin) # <<>> =>
        /\ Len(fout) = Len(ftlds)
        /\ \A i \in 1..Len(ftlds) : fout[i] = normalize(fin) \o <<".">> \o ftlds[i]

\* the keyword " Ba" expanded over two TLDs
C4_Witness ==
    /\ fop = "expand_keyword" /\ fin = <<" ", "B", "a">> /\ ftlds = <<<<"b">>, <<"c", ".">>>>
    /\ fout = << <<"b", "a", ".", "b">>, <<"b", "a", ".", "c", ".">> >>

\* C5 (as stated): for K containing '.', expand_keyword(K, TLDs) = [normalize(K)].
C5_Original == fop = "expand_keyword" /\ Contains(fin, ".") => fout = <<normalize(fin)>>

\* C5 (amended): for K whose normalize(K) contains '.', expand_keyword(K, TLDs) = [normalize(K)].
C5_Amended ==
    fop = "expand_keyword" /\ Contains(normalize(fin), ".") => fout = <<normalize(fin)>>

\* the keyword "B.a" with a non-empty TLD list
C5_Witness ==
    /\ fop = "expand_keyword" /\ fin = <<"B", ".", "a">> /\ Len(ftlds) = 2
    /\ fout = << <<"b", ".", "a">> >>

NoListFile == \A n \in input.names : ~endswith(n, <<".", "l", "i", "s", "t">>)

\* C7: without input directory or without *.list file in it the run ends with exit code 2 and
\* no output file is created or modified.
C7_NoInput ==
    ~input.exists \/ NoListFile =>
        /\ pc \in {"check_dir", "glob", "done"}
        /\ pc = "done" => exit_code = 2
        /\ fs = fs0 /\ writes = <<>>

\* a directory holding only a.txt: exit 2, the old output file is as it was
C7_Witness ==
    /\ pc = "done" /\ exit_code = 2 /\ input.exists /\ input.names = {N_a_txt}
    /\ fs["out.txt"] = OldFile /\ ~fs["unsup.txt"].exists

\* C8: with an empty unsupported-file option only the domains file is ever written, and it is
\* written in full by the time main returns 0 or 1.
C8_Suppressed ==
    args.unsupported_file = "" =>
        /\ \A i \in 1..Len(writes) : writes[i][1] = args.output_file
        /\ \A p \in OutputPaths \ {args.output_file} : fs[p] = fs0[p]
        /\ pc = "done" /\ exit_code # 2 =>
               /\ writes = <<<<args.output_file, domains>>>>
               /\ fs[args.output_file] = Written(domains)

\* two unsupported entries collected, option empty, run finished
C8_Witness ==
    /\ pc = "done" /\ args.unsupported_file = "" /\ Len(unsupported) = 2
    /\ fs[args.output_file] = Written(domains)

\* the classifier as section 4.1 describes it
ClassifyRef(raw) ==
    LET t == strip(raw)
    IN  IF t = <<>> \/ t[1] = "#" \/ (Len(t) >= 2 /\ t[1] = "/" /\ t[2] = "/")
        THEN None
        ELSE IF \A i \in 1..Len(t) : t[i] # ","
        THEN [kind |-> "domain", value |-> t]
        ELSE LET c == CHOOSE i \in 1..Len(t) : t[i] = "," /\ \A j \in 1..Len(t) : t[j] = "," => i <= j
                 prefix == strip(SubSeq(t, 1, c - 1))
                 value == strip(SubSeq(t, c + 1, Len(t)))
             IN  IF prefix \in {P_DOMAIN, P_DOMAIN_SUFFIX} THEN [kind |-> "domain", value |-> value]
                 ELSE IF prefix = P_DOMAIN_KEYWORD THEN [kind |-> "keyword", value |-> value]
                 ELSE [kind |-> "raw", value |-> t]

\* C9: parse_line agrees with the classifier of section 4.1 on every raw line, splitting at the
\* first comma only, and never answers unknown.
C9_Classifier ==
    fop = "parse_line" => fout = ClassifyRef(fin) /\ fout.kind # "unknown"

\* "DOMAIN,a," is a domain rule whose value keeps the second comma
C9_Witness ==
    /\ fop = "parse_line" /\ fin = P_DOMAIN \o <<",", "a", ",">>
    /\ fout = [kind |-> "domain", value |-> <<"a", ",">>]

FirstSeenOrder(q, fa) ==
    /\ Entries(q) = DOMAIN fa
    /\ \A i, j \in 1..Len(q) : i < j <=> PosLess(fa[q[i]], fa[q[j]])

\* C10: every step leaves domains and unsupported a prefix of their new value, and entry x is
\* before entry y exactly when x was first produced before y in file-name, line, expansion order.
C10_FirstSeen ==
    /\ [][IsPrefix(domains, domains') /\ IsPrefix(unsupported, unsupported')]_vars
    /\ [](FirstSeenOrder(domains, firstAt) /\ FirstSeenOrder(unsupported, firstAtU))

\* entries of both sequences coming from two files
C10_Witness ==
    /\ pc = "done" /\ Len(domains) >= 2 /\ Len(unsupported) = 2
    /\ firstAt[domains[1]][1] = N_ab_list /\ firstAt[domains[Len(domains)]][1] = N_b_list
    /\ firstAtU[unsupported[1]][1] # firstAtU[unsupported[2]][1]

====
